---- MODULE Spec2Model ----
(***************************************************************************)
(* Presence and location relay of the fleet tracker (src/src/server.js).   *)
(*                                                                         *)
(* Every inbound socket event starts one async handler.  A handler runs    *)
(* synchronously up to its `await` of a store call, is suspended while the *)
(* store executes (or rejects) the call, and is resumed later to emit its  *)
(* outbound event or to log the error.  Handlers of any sockets interleave *)
(* at these suspension points.                                             *)
(***************************************************************************)
EXTENDS Integers, Sequences, FiniteSets

\* ---------------------------------------------------------------- bounds
MaxEvents == 3          \* inbound events (messages and disconnects) handled
MaxInFlight == 2        \* handlers suspended on a store call at one time

\* The code only tests a driverId for truthiness and equality and never
\* looks into coordinates or session ids, so two values of each tell every
\* case apart that the handlers can.
Sessions == {1, 2}      \* socket ids
Drivers == {1, 2}       \* non-empty driverId strings
Coords == {1, 2}        \* {latitude, longitude} pairs

\* ---------------------------------------------------------------- values
Undefined == -1         \* a property that is absent from a JS object
EmptyId == 0            \* the empty string "" as a driverId
NoCoords == 0           \* a record that has no coordinates yet
NoStatus == "none"      \* a record (or no record) that carries no status

\* JS truthiness of a driverId value: `!x` is true for undefined and "".
Truthy(x) == x # Undefined /\ x # EmptyId

\* The payloads a client can send.  present = FALSE is an event emitted with
\* no argument at all (data is undefined in the handler).
NoData == [present |-> FALSE, driverId |-> Undefined, coordinates |-> NoCoords]
ActivePayloads ==
    {NoData} \cup
    { [present |-> TRUE, driverId |-> d, coordinates |-> NoCoords] :
        d \in Drivers \cup {Undefined, EmptyId} }
LocationPayloads ==
    {NoData} \cup
    { [present |-> TRUE, driverId |-> d, coordinates |-> c] :
        d \in Drivers \cup {Undefined, EmptyId}, c \in Coords }

VARIABLES
    process,    \* the server process: starting, connecting, listening, exited
    sockets,    \* per session: connection state and socket.driverId
    store,      \* the Location collection: a sequence of documents
    handlers,   \* the handlers suspended on a store call, in arrival order
    inbound,    \* the inbound event the latest step handled, <<>> for none
    emitted,    \* the outbound events of the latest step, in emission order
    console,    \* the source line of the latest step's last console output, 0 for none
    clock,      \* how many inbound events were handled so far
    unhandled   \* handler promises that rejected (an error left a handler)

vars == <<process, sockets, store, handlers, inbound, emitted, console, clock, unhandled>>

\* ---------------------------------------------------------------- store
\* Index of the first document of driver d, 0 when there is none.
FindIndex(st, d) ==
    IF \E i \in 1..Len(st) : st[i].driverId = d
    THEN CHOOSE i \in 1..Len(st) :
            /\ st[i].driverId = d
            /\ \A j \in 1..(i - 1) : st[j].driverId # d
    ELSE 0

\* Location.findOneAndUpdate({driverId}, {status, lastSeen: new Date()},
\* {upsert}): updates the first matching document; inserts one only with
\* upsert.  lastSeen is written by every store call and read by none: the
\* documents of the model leave the value out.
findOneAndUpdate(st, d, status, upsert) ==
    LET i == FindIndex(st, d) IN
    IF i # 0
    THEN [st EXCEPT ![i] = [@ EXCEPT !.status = status]]
    ELSE IF upsert
         THEN Append(st, [driverId |-> d, status |-> status, coordinates |-> NoCoords])
         ELSE st

\* saveLocation(driverId, coordinates): upserts coordinates (and lastSeen)
\* and leaves status alone.
saveLocation(st, d, coordinates) ==
    LET i == FindIndex(st, d) IN
    IF i # 0
    THEN [st EXCEPT ![i] = [@ EXCEPT !.coordinates = coordinates]]
    ELSE Append(st, [driverId |-> d, status |-> NoStatus, coordinates |-> coordinates])

StatusOf(st, d) == IF FindIndex(st, d) = 0 THEN NoStatus ELSE st[FindIndex(st, d)].status
CoordsOf(st, d) == IF FindIndex(st, d) = 0 THEN NoCoords ELSE st[FindIndex(st, d)].coordinates
RecordsOf(st, d) == {i \in 1..Len(st) : st[i].driverId = d}

\* ---------------------------------------------------------------- transport
\* The sockets of the namespace: io.emit reaches exactly these.
Connected == {s \in Sessions : sockets[s].state = "connected"}

\* A handler suspended on its store call.  result is what the call resolved
\* to: "pending" before it did, then "doc" (a document) or "null" (none).
Handler(event, s, data) ==
    [event |-> event, socket |-> s, data |-> data, pc |-> "await", result |-> "pending"]

\* An outbound event: its name and payload, the sockets it is addressed to
\* and the socket whose handler emitted it.
Emission(event, d, status, c, to, by) ==
    [event |-> event, driverId |-> d, status |-> status, coordinates |-> c,
     to |-> to, by |-> by]

\* ---------------------------------------------------------------- code
\* Mutant: the guard tests the payload only, `if (!data) return;`.
ActiveRejectedPayloadOnly(data) == ~data.present

\* Line 31: `if (!data || !data.driverId) return;`
ActiveRejected(data) == ~data.present \/ ~Truthy(data.driverId)

\* Line 60: `if (!data.driverId) return;` reads a property of data, which
\* throws a TypeError when data itself is undefined.
LocationThrows(data) == ~data.present
LocationRejected(data) == ~Truthy(data.driverId)

\* Mutant: the disconnect handler without its guard.
DisconnectUnguarded(sock) == TRUE

\* Line 75: `if (socket.driverId)`.
DisconnectBound(sock) == Truthy(sock.driverId)

\* Line 39: `socket.driverId = driverId;`
BindDriver(sock, d) == [sock EXCEPT !.driverId = d]

\* Mutant: the check-in creates a document instead of upserting one.
ActiveStoreCreate(st, h) ==
    Append(st, [driverId |-> h.data.driverId, status |-> "online",
                coordinates |-> NoCoords])

\* Lines 45-49: the check-in's store call.
ActiveStoreCall(st, h) == findOneAndUpdate(st, h.data.driverId, "online", TRUE)

\* Mutant: the position update also marks the driver online.
LocationStoreMarksOnline(st, h) ==
    findOneAndUpdate(saveLocation(st, h.data.driverId, h.data.coordinates),
                     h.data.driverId, "online", TRUE)

\* Line 64: the position update's store call.
LocationStoreCall(st, h) == saveLocation(st, h.data.driverId, h.data.coordinates)

\* Mutant: the disconnect's update copied from the check-in, status and all.
DisconnectStoreOnline(st, h, d) == findOneAndUpdate(st, d, "online", FALSE)

\* Lines 80-83: the disconnect's store call, for the socket's driverId d.
DisconnectStoreCall(st, h, d) == findOneAndUpdate(st, d, "offline", FALSE)

\* Mutant: socket.broadcast.emit in place of io.emit.
IoEmitToOthers(s) == Connected \ {s}

\* Line 52 and lines 86-89: io.emit addresses every socket of the namespace.
IoEmitTo(s) == Connected

\* Mutant: io.emit in place of socket.broadcast.emit.
BroadcastToAll(s) == Connected

\* Line 67: socket.broadcast.emit addresses every socket but the sender.
BroadcastEmitTo(s) == Connected \ {s}

\* Mutant: every handler announces the driver its socket is bound to.
EmissionOfBound(h) ==
    CASE h.event = "driver-active" ->
            <<Emission("status-update", sockets[h.socket].driverId, "online", NoCoords,
                       IoEmitTo(h.socket), h.socket)>>
      [] h.event = "update-location" ->
            <<Emission("location-received", sockets[h.socket].driverId, NoStatus,
                       h.data.coordinates, BroadcastEmitTo(h.socket), h.socket)>>
      [] h.event = "disconnect" ->
            <<Emission("status-update", sockets[h.socket].driverId, "offline",
                       NoCoords, IoEmitTo(h.socket), h.socket)>>

\* Lines 52, 67, 86-89: the event a handler emits when it reaches its emit.
\* The disconnect handler reads socket.driverId again after the await.
EmissionOf(h) ==
    CASE h.event = "driver-active" ->
            <<Emission("status-update", h.data.driverId, "online", NoCoords,
                       IoEmitTo(h.socket), h.socket)>>
      [] h.event = "update-location" ->
            <<Emission("location-received", h.data.driverId, NoStatus,
                       h.data.coordinates, BroadcastEmitTo(h.socket), h.socket)>>
      [] h.event = "disconnect" ->
            <<Emission("status-update", sockets[h.socket].driverId, "offline",
                       NoCoords, IoEmitTo(h.socket), h.socket)>>

\* Mutant: the emit stands after the try/catch and runs either way.
EmitsEitherWay(outcome) == TRUE

\* Lines 43-55, 62-70, 78-92: the emit follows the await inside the try
\* block: it runs after a fulfilled store call and is skipped by a rejected
\* one, which enters the catch block.
EmitsAfter(outcome) == outcome = "fulfilled"

\* Mutant: the catch block logs and throws the error on.
CatchThrowsOn == TRUE

\* Lines 53-55, 68-70, 90-92: the catch block logs and the handler goes on.
CatchRethrows == FALSE

\* Lines 54, 69, 91: the console.error of each catch block.
CatchLine(h) ==
    CASE h.event = "driver-active" -> 54
      [] h.event = "update-location" -> 69
      [] h.event = "disconnect" -> 91

\* Line 94: the console.log that ends the disconnect handler.
EndLine(h) == IF h.event = "disconnect" THEN 94 ELSE 0

Running == process = "listening"
CanHandle == Running /\ clock < MaxEvents /\ Len(handlers) < MaxInFlight
Remove(seq, i) == [j \in 1..(Len(seq) - 1) |-> IF j < i THEN seq[j] ELSE seq[j + 1]]

Init ==
    /\ process = "starting"
    /\ sockets = [s \in Sessions |-> [state |-> "idle", driverId |-> Undefined]]
    /\ store = <<>>
    /\ handlers = <<>>
    /\ inbound = <<>>
    /\ emitted = <<>>
    /\ console = 0
    /\ clock = 0
    /\ unhandled = 0

\* ---------------------------------------------------------------- startup
\* Mutant: server.listen is called before the store is connected.
StartServerListensFirst(uriPresent) ==
    /\ process = "starting"
    /\ process' = IF uriPresent THEN "listening" ELSE "exited"
    /\ console' = IF uriPresent THEN 107 ELSE 110
    /\ emitted' = <<>>
    /\ inbound' = <<>>
    /\ UNCHANGED <<sockets, store, handlers, clock, unhandled>>

\* Lines 99-103: startServer checks MONGO_URI and awaits mongoose.connect.
\* "exited" is the process after process.exit(1) of line 111.
StartServer(uriPresent) ==
    /\ process = "starting"
    /\ process' = IF uriPresent THEN "connecting" ELSE "exited"
    /\ console' = IF uriPresent THEN 0 ELSE 110
    /\ emitted' = <<>>
    /\ inbound' = <<>>
    /\ UNCHANGED <<sockets, store, handlers, clock, unhandled>>

\* Lines 103-112: the connection resolves (listen) or rejects (exit(1)).
MongoConnected(ok) ==
    /\ process = "connecting"
    /\ process' = IF ok THEN "listening" ELSE "exited"
    /\ console' = IF ok THEN 107 ELSE 110
    /\ emitted' = <<>>
    /\ inbound' = <<>>
    /\ UNCHANGED <<sockets, store, handlers, clock, unhandled>>

\* ---------------------------------------------------------------- events
\* Lines 25-26, io.on("connection"): a new socket joins, with no driverId.
Connection(s) ==
    /\ Running
    /\ sockets[s].state = "idle"
    /\ sockets' = [sockets EXCEPT ![s].state = "connected"]
    /\ console' = 26
    /\ inbound' = <<[event |-> "connection", socket |-> s, data |-> NoData]>>
    /\ emitted' = <<>>
    /\ UNCHANGED <<process, store, handlers, clock, unhandled>>

\* Lines 29-49: "driver-active" up to the await of the store call.
DriverActive(s, data) ==
    /\ CanHandle
    /\ sockets[s].state = "connected"
    /\ clock' = clock + 1
    /\ IF ActiveRejected(data)
       THEN /\ console' = 32
            /\ UNCHANGED <<sockets, handlers>>
       ELSE /\ sockets' = [sockets EXCEPT ![s] = BindDriver(@, data.driverId)]
            /\ console' = 41
            /\ handlers' = Append(handlers, Handler("driver-active", s, data))
    /\ inbound' = <<[event |-> "driver-active", socket |-> s, data |-> data]>>
    /\ emitted' = <<>>
    /\ UNCHANGED <<process, store, unhandled>>

\* Lines 59-64: "update-location" up to the await of the store call.  The
\* TypeError of line 60 rejects the async handler's promise, which nothing
\* handles: the runtime either only warns or ends the process.
UpdateLocation(s, data) ==
    /\ CanHandle
    /\ sockets[s].state = "connected"
    /\ clock' = clock + 1
    /\ IF LocationThrows(data)
       THEN /\ unhandled' = unhandled + 1
            /\ process' \in {process, "exited"}
            /\ UNCHANGED handlers
       ELSE /\ handlers' = IF LocationRejected(data) THEN handlers
                           ELSE Append(handlers, Handler("update-location", s, data))
            /\ UNCHANGED <<process, unhandled>>
    /\ console' = 0
    /\ inbound' = <<[event |-> "update-location", socket |-> s, data |-> data]>>
    /\ emitted' = <<>>
    /\ UNCHANGED <<sockets, store>>

\* Lines 74-83 (and 94 for an unbound socket): "disconnect" up to the await
\* of the store call.  The socket has left the namespace when the event fires.
Disconnect(s) ==
    /\ CanHandle
    /\ sockets[s].state = "connected"
    /\ clock' = clock + 1
    /\ sockets' = [sockets EXCEPT ![s].state = "closed"]
    /\ IF DisconnectBound(sockets[s])
       THEN /\ console' = 76
            /\ handlers' = Append(handlers, Handler("disconnect", s, NoData))
       ELSE /\ console' = 94
            /\ UNCHANGED handlers
    /\ inbound' = <<[event |-> "disconnect", socket |-> s, data |-> NoData]>>
    /\ emitted' = <<>>
    /\ UNCHANGED <<process, store, unhandled>>

\* ---------------------------------------------------------------- store steps
\* The store executes the pending call of handler h.  No message of a closed
\* socket is handled, so its driverId is the one the call was made with.
StoreCall(st, h) ==
    CASE h.event = "driver-active" -> ActiveStoreCall(st, h)
      [] h.event = "update-location" -> LocationStoreCall(st, h)
      [] h.event = "disconnect" -> DisconnectStoreCall(st, h, sockets[h.socket].driverId)

\* What the call resolves to: findOneAndUpdate without upsert resolves to
\* null, and not to an error, when no document matches.
StoreResult(st, h) ==
    IF h.event = "disconnect" /\ FindIndex(st, sockets[h.socket].driverId) = 0
    THEN "null" ELSE "doc"

\* The store call of handler i takes effect; the handler stays suspended
\* until its promise is resumed.
StoreFulfil(i) ==
    /\ Running
    /\ handlers[i].pc = "await"
    /\ store' = StoreCall(store, handlers[i])
    /\ handlers' = [handlers EXCEPT ![i].pc = "fulfilled",
                                    ![i].result = StoreResult(store, handlers[i])]
    /\ inbound' = <<>>
    /\ emitted' = <<>>
    /\ console' = 0
    /\ UNCHANGED <<process, sockets, clock, unhandled>>

\* A resumed handler runs to its end: the emit after a fulfilled call, the
\* catch block after a rejected one.
Resume(i, outcome) ==
    /\ emitted' = IF EmitsAfter(outcome) THEN EmissionOf(handlers[i]) ELSE <<>>
    /\ console' = IF outcome = "rejected" /\ CatchRethrows THEN 0
                  ELSE IF EndLine(handlers[i]) # 0 THEN EndLine(handlers[i])
                  ELSE IF outcome = "rejected" THEN CatchLine(handlers[i]) ELSE 0
    /\ unhandled' = IF outcome = "rejected" /\ CatchRethrows
                    THEN unhandled + 1 ELSE unhandled
    /\ handlers' = Remove(handlers, i)
    /\ inbound' = <<>>
    /\ UNCHANGED <<process, sockets, store, clock>>

\* The store call of handler i fails: nothing is written, and the handler
\* resumes in its catch block (lines 53-55, 68-70, 90-92).
StoreReject(i) ==
    /\ Running
    /\ handlers[i].pc = "await"
    /\ Resume(i, "rejected")

\* Lines 50-52: the check-in resumes: io.emit("status-update", online).
DriverActiveResume(i) ==
    /\ Running
    /\ handlers[i].event = "driver-active"
    /\ handlers[i].pc = "fulfilled"
    /\ Resume(i, "fulfilled")

\* Lines 65-67: the position update resumes: socket.broadcast.emit(data).
UpdateLocationResume(i) ==
    /\ Running
    /\ handlers[i].event = "update-location"
    /\ handlers[i].pc = "fulfilled"
    /\ Resume(i, "fulfilled")

\* Lines 84-94: the disconnect resumes: io.emit("status-update", offline),
\* then the closing console.log of line 94.
DisconnectResume(i) ==
    /\ Running
    /\ handlers[i].event = "disconnect"
    /\ handlers[i].pc = "fulfilled"
    /\ Resume(i, "fulfilled")

Next ==
    \/ \E u \in BOOLEAN : StartServer(u)
    \/ \E ok \in BOOLEAN : MongoConnected(ok)
    \/ \E s \in Sessions : Connection(s)
    \/ \E s \in Sessions, data \in ActivePayloads : DriverActive(s, data)
    \/ \E s \in Sessions, data \in LocationPayloads : UpdateLocation(s, data)
    \/ \E s \in Sessions : Disconnect(s)
    \/ \E i \in 1..Len(handlers) : StoreFulfil(i)
    \/ \E i \in 1..Len(handlers) : StoreReject(i)
    \/ \E i \in 1..Len(handlers) : DriverActiveResume(i)
    \/ \E i \in 1..Len(handlers) : UpdateLocationResume(i)
    \/ \E i \in 1..Len(handlers) : DisconnectResume(i)

Spec == Init /\ [][Next]_vars

\* ---------------------------------------------------------------- scheduling
\* The store answers every call it was sent, with a result or with an error.
StoreReturns == \E i \in 1..Len(handlers) : StoreFulfil(i) \/ StoreReject(i)

\* The event loop runs the continuation of every handler whose await settled.
HandlerResumes ==
    \E i \in 1..Len(handlers) :
        DriverActiveResume(i) \/ UpdateLocationResume(i) \/ DisconnectResume(i)

\* The behaviours in which every store call returns and every settled
\* handler is resumed.
LiveSpec == Spec /\ WF_vars(StoreReturns) /\ WF_vars(HandlerResumes)

\* The behaviours the code alone guarantees: it sets no timeout on a store
\* call (lines 45-49, 64, 80-83), so a call may stay unanswered for ever,
\* while every settled handler is resumed.
HangSpec == Spec /\ WF_vars(HandlerResumes)

\* ---------------------------------------------------------------- store never fails
\* The behaviours in which every store call that is answered succeeds.
NextStoreOk ==
    \/ \E u \in BOOLEAN : StartServer(u)
    \/ \E ok \in BOOLEAN : MongoConnected(ok)
    \/ \E s \in Sessions : Connection(s)
    \/ \E s \in Sessions, data \in ActivePayloads : DriverActive(s, data)
    \/ \E s \in Sessions, data \in LocationPayloads : UpdateLocation(s, data)
    \/ \E s \in Sessions : Disconnect(s)
    \/ \E i \in 1..Len(handlers) : StoreFulfil(i)
    \/ \E i \in 1..Len(handlers) : DriverActiveResume(i)
    \/ \E i \in 1..Len(handlers) : UpdateLocationResume(i)
    \/ \E i \in 1..Len(handlers) : DisconnectResume(i)

StoreOkSpec == Init /\ [][NextStoreOk]_vars

\* ---------------------------------------------------------------- one handler per session
\* No handler of session s is suspended on a store call.
SessionIdle(s) == \A i \in 1..Len(handlers) : handlers[i].socket # s

\* The behaviours in which every store call succeeds and a session sends its
\* next event only after its previous handler has completed: handlers that
\* interleave are handlers of different sessions.
NextSerial ==
    \/ \E u \in BOOLEAN : StartServer(u)
    \/ \E ok \in BOOLEAN : MongoConnected(ok)
    \/ \E s \in Sessions : Connection(s)
    \/ \E s \in Sessions, data \in ActivePayloads : SessionIdle(s) /\ DriverActive(s, data)
    \/ \E s \in Sessions, data \in LocationPayloads : SessionIdle(s) /\ UpdateLocation(s, data)
    \/ \E s \in Sessions : SessionIdle(s) /\ Disconnect(s)
    \/ \E i \in 1..Len(handlers) : StoreFulfil(i)
    \/ \E i \in 1..Len(handlers) : DriverActiveResume(i)
    \/ \E i \in 1..Len(handlers) : UpdateLocationResume(i)
    \/ \E i \in 1..Len(handlers) : DisconnectResume(i)

SerialSpec == Init /\ [][NextSerial]_vars

\* ---------------------------------------------------------------- steps
\* The steps of a suspended handler, told by what they do to `handlers`.
\* Handler i's store call takes effect in this step.
Written(i) ==
    /\ i \in 1..Len(handlers)
    /\ handlers[i].pc = "await"
    /\ Len(handlers') = Len(handlers)
    /\ handlers'[i].pc = "fulfilled"

\* Handler i completes in this step, after a store call that succeeded.
Completed(i) ==
    /\ i \in 1..Len(handlers)
    /\ handlers[i].pc = "fulfilled"
    /\ handlers' = Remove(handlers, i)

\* Handler i completes in this step, after a store call that failed.
Failed(i) ==
    /\ i \in 1..Len(handlers)
    /\ handlers[i].pc = "await"
    /\ handlers' = Remove(handlers, i)

\* The inbound event handled in this step.
Handled(event, s) ==
    /\ inbound' # <<>>
    /\ clock' = clock + 1
    /\ inbound'[1].event = event
    /\ inbound'[1].socket = s

InFlight == 1..Len(handlers)

\* ---------------------------------------------------------------- C1
\* What a completing check-in of handler h must emit: one status-update
\* {D, online} addressed to every connected session.
OnlineUpdate(h) ==
    <<Emission("status-update", h.data.driverId, "online", NoCoords, Connected, h.socket)>>

\* C1 as stated: a driver-active message with a non-empty driverId D whose
\* store write succeeded: when its handler completes, the store holds a
\* record for D with status online, and exactly one status-update{D, online}
\* was emitted, addressed to every connected session, the sender included.
C1_CheckInOnline ==
    [][\A i \in InFlight :
        (handlers[i].event = "driver-active" /\ Completed(i)) =>
            LET h == handlers[i] IN
            /\ StatusOf(store', h.data.driverId) = "online"
            /\ emitted' = OnlineUpdate(h)
            /\ (sockets[h.socket].state = "connected" => h.socket \in emitted'[1].to)
      ]_vars

\* C1 as amended: the store write of the check-in leaves a record for D with
\* status online; until the handler completes only the store write of a
\* disconnect takes that status away; when the handler completes D still has
\* a record and exactly one status-update{D, online} is emitted, addressed to
\* every session connected then, the sender included while it is connected.
C1_CheckInWritesOnline ==
    [][\A i \in InFlight :
        handlers[i].event = "driver-active" =>
            LET h == handlers[i]
                D == handlers[i].data.driverId IN
            /\ Written(i) => StatusOf(store', D) = "online"
            /\ ( /\ h.pc = "fulfilled"
                 /\ StatusOf(store, D) = "online"
                 /\ StatusOf(store', D) # "online" ) =>
                    \E j \in InFlight : Written(j) /\ handlers[j].event = "disconnect"
            /\ Completed(i) =>
                /\ RecordsOf(store', D) # {}
                /\ emitted' = OnlineUpdate(h)
                /\ (sockets[h.socket].state = "connected" => h.socket \in emitted'[1].to)
      ]_vars

\* A check-in completed: its driver is online in the store and both
\* sessions, the sender among them, are addressed.
C1_Witness ==
    /\ emitted # <<>>
    /\ emitted[1].event = "status-update"
    /\ emitted[1].status = "online"
    /\ emitted[1].to = Sessions
    /\ sockets[emitted[1].by].driverId = emitted[1].driverId
    /\ StatusOf(store, emitted[1].driverId) = "online"

\* ---------------------------------------------------------------- C2
\* A payload the check-in must ignore: no payload, or a missing or empty
\* driverId.
BadPayload(data) == ~data.present \/ data.driverId \in {Undefined, EmptyId}

\* C2: a driver-active message with no payload or with a missing or empty
\* driverId writes nothing to the store, issues no store call, emits nothing
\* and leaves every socket's bound driver identity as it was.
C2_BadCheckInIgnored ==
    [][\A s \in Sessions :
        (Handled("driver-active", s) /\ BadPayload(inbound'[1].data)) =>
            /\ store' = store
            /\ handlers' = handlers
            /\ emitted' = <<>>
            /\ sockets' = sockets
      ]_vars

C2_Witness ==
    /\ inbound # <<>>
    /\ inbound[1].event = "driver-active"
    /\ inbound[1].data.present
    /\ inbound[1].data.driverId = EmptyId
    /\ sockets[inbound[1].socket] = [state |-> "connected", driverId |-> Undefined]
    /\ handlers = <<>>
    /\ store = <<>>

\* ---------------------------------------------------------------- C3
\* C3: an update-location message of session S with a non-empty driverId D:
\* its store write makes the store's coordinates for D the message's, and on
\* completion location-received is addressed to every connected session
\* other than S and not to S.
C3_LocationRelayed ==
    [][\A i \in InFlight :
        handlers[i].event = "update-location" =>
            LET h == handlers[i] IN
            /\ Written(i) => CoordsOf(store', h.data.driverId) = h.data.coordinates
            /\ Completed(i) =>
                /\ emitted' = <<Emission("location-received", h.data.driverId, NoStatus,
                                         h.data.coordinates, Connected \ {h.socket},
                                         h.socket)>>
                /\ h.socket \notin emitted'[1].to
      ]_vars

C3_Witness ==
    /\ emitted # <<>>
    /\ emitted[1].event = "location-received"
    /\ sockets[emitted[1].by].state = "connected"
    /\ emitted[1].to = Sessions \ {emitted[1].by}
    /\ CoordsOf(store, emitted[1].driverId) = emitted[1].coordinates

\* ---------------------------------------------------------------- C4
\* What a completing disconnect of handler h must emit: one status-update
\* {D, offline} addressed to the sessions still connected.
OfflineUpdate(h) ==
    <<Emission("status-update", sockets[h.socket].driverId, "offline", NoCoords,
               Connected, h.socket)>>

\* C4 as stated: a session bound to driver D disconnects and the store write
\* succeeds (it updated D's record): when the disconnect handler completes,
\* the record for D has status offline and status-update{D, offline} was
\* emitted to all sessions still connected.
C4_DisconnectOffline ==
    [][\A i \in InFlight :
        (handlers[i].event = "disconnect" /\ handlers[i].result = "doc" /\ Completed(i)) =>
            LET h == handlers[i] IN
            /\ StatusOf(store', sockets[h.socket].driverId) = "offline"
            /\ emitted' = OfflineUpdate(h)
      ]_vars

\* C4 as amended: the store write of the disconnect, when it updates D's
\* record, leaves it with status offline; until the handler completes only
\* the store write of a driver-active takes that status away; when the
\* handler completes D still has a record and status-update{D, offline} is
\* emitted to all sessions still connected, the closed one not among them.
C4_DisconnectWritesOffline ==
    [][\A i \in InFlight :
        handlers[i].event = "disconnect" =>
            LET h == handlers[i]
                D == sockets[handlers[i].socket].driverId IN
            /\ (Written(i) /\ handlers'[i].result = "doc") => StatusOf(store', D) = "offline"
            /\ ( /\ h.pc = "fulfilled" /\ h.result = "doc"
                 /\ StatusOf(store, D) = "offline"
                 /\ StatusOf(store', D) # "offline" ) =>
                    \E j \in InFlight : Written(j) /\ handlers[j].event = "driver-active"
            /\ (Completed(i) /\ h.result = "doc") =>
                /\ RecordsOf(store', D) # {}
                /\ emitted' = OfflineUpdate(h)
                /\ h.socket \notin emitted'[1].to
      ]_vars

\* A bound session disconnected: its driver is offline in the store and the
\* session that is still connected is addressed.
C4_Witness ==
    /\ emitted # <<>>
    /\ emitted[1].event = "status-update"
    /\ emitted[1].status = "offline"
    /\ sockets[emitted[1].by] = [state |-> "closed", driverId |-> emitted[1].driverId]
    /\ emitted[1].to = Sessions \ {emitted[1].by}
    /\ StatusOf(store, emitted[1].driverId) = "offline"

\* ---------------------------------------------------------------- C5
\* C5: the disconnect of a session that never checked in (its socket has no
\* driverId) writes nothing to the store, issues no store call and emits
\* nothing.
C5_ObserverDisconnect ==
    [][\A s \in Sessions :
        (Handled("disconnect", s) /\ sockets[s].driverId = Undefined) =>
            /\ store' = store
            /\ handlers' = handlers
            /\ emitted' = <<>>
      ]_vars

\* An observer that sent a position update, which was saved, has disconnected.
C5_Witness ==
    /\ inbound # <<>>
    /\ inbound[1].event = "disconnect"
    /\ sockets[inbound[1].socket] = [state |-> "closed", driverId |-> Undefined]
    /\ \A s \in Sessions \ {inbound[1].socket} : sockets[s].state = "idle"
    /\ store # <<>>
    /\ handlers = <<>>
    /\ emitted = <<>>

\* ---------------------------------------------------------------- C6
\* C6: when the store call of a handler fails, the handler emits no outbound
\* event, writes nothing, lets no error escape (no rejected handler promise,
\* the process keeps listening) and leaves every socket as it was, so that
\* the session of a driver-active or update-location stays connected.
C6_StoreFailureContained ==
    [][\A i \in InFlight :
        Failed(i) =>
            /\ emitted' = <<>>
            /\ store' = store
            /\ unhandled' = unhandled
            /\ process' = "listening"
            /\ sockets' = sockets
      ]_vars

\* A check-in's store call has just failed: logged, nothing saved, nothing
\* sent, the session still connected.
C6_Witness ==
    /\ console = 54
    /\ emitted = <<>>
    /\ store = <<>>
    /\ handlers = <<>>
    /\ unhandled = 0
    /\ process = "listening"
    /\ \E s \in Sessions : sockets[s].state = "connected" /\ sockets[s].driverId \in Drivers

\* ---------------------------------------------------------------- C7
\* C7: a session's bound driver identity, once set, never changes.
C7_BindingStable ==
    [][\A s \in Sessions :
        Truthy(sockets[s].driverId) => sockets'[s].driverId = sockets[s].driverId
      ]_vars

\* ---------------------------------------------------------------- C8
\* C8: the store write of a driver-active for D leaves D's status online and
\* exactly one record for D; when D was already online it changes nothing
\* (but lastSeen), and it never touches another driver's record; with no
\* disconnect handled so far, D is online when the handler completes.
C8_CheckInIdempotent ==
    [][\A i \in InFlight :
        handlers[i].event = "driver-active" =>
            LET D == handlers[i].data.driverId IN
            /\ Written(i) =>
                /\ StatusOf(store', D) = "online"
                /\ Cardinality(RecordsOf(store', D)) = 1
                /\ StatusOf(store, D) = "online" => store' = store
                /\ CoordsOf(store', D) = CoordsOf(store, D)
                /\ \A d \in Drivers \ {D} :
                    /\ StatusOf(store', d) = StatusOf(store, d)
                    /\ CoordsOf(store', d) = CoordsOf(store, d)
                    /\ Cardinality(RecordsOf(store', d)) = Cardinality(RecordsOf(store, d))
            /\ (Completed(i) /\ \A s \in Sessions : sockets[s].state # "closed") =>
                StatusOf(store', D) = "online"
      ]_vars

\* Two check-ins for one driver were both written: one record, online.
C8_Witness ==
    /\ Len(handlers) = 2
    /\ \A i \in InFlight : handlers[i].event = "driver-active" /\ handlers[i].pc = "fulfilled"
    /\ handlers[1].data.driverId = handlers[2].data.driverId
    /\ Len(store) = 1
    /\ StatusOf(store, handlers[1].data.driverId) = "online"

\* ---------------------------------------------------------------- C9
\* C9: two update-location messages of one session for one driver are
\* applied to the store in submission order: the store never executes the
\* later one's call while the earlier one's is still pending (or the earlier
\* coordinates would overwrite the later ones).
C9_SubmissionOrder ==
    [][\A i, j \in InFlight :
        ( /\ j < i
          /\ handlers[i].event = "update-location"
          /\ handlers[j].event = "update-location"
          /\ handlers[i].socket = handlers[j].socket
          /\ handlers[i].data.driverId = handlers[j].data.driverId
          /\ handlers[j].pc = "await" ) => ~Written(i)
      ]_vars

\* ---------------------------------------------------------------- C10
\* C10: the store write of an update-location changes no driver's status,
\* and a step changes a status only by executing the store call of a
\* driver-active or of a disconnect.
C10_RelayKeepsStatus ==
    [][store' # store =>
        /\ \A i \in InFlight :
            (handlers[i].event = "update-location" /\ Written(i)) =>
                \A d \in Drivers : StatusOf(store', d) = StatusOf(store, d)
        /\ (\E d \in Drivers : StatusOf(store', d) # StatusOf(store, d)) =>
            \E i \in InFlight :
                Written(i) /\ handlers[i].event \in {"driver-active", "disconnect"}
      ]_vars

\* A position update was written to the record of an online driver.
C10_Witness ==
    /\ Len(handlers) = 1
    /\ handlers[1].event = "update-location"
    /\ handlers[1].pc = "fulfilled"
    /\ StatusOf(store, handlers[1].data.driverId) = "online"
    /\ CoordsOf(store, handlers[1].data.driverId) = handlers[1].data.coordinates

\* ---------------------------------------------------------------- C11
\* C11: an update-location message with a missing or empty driverId, or with
\* no payload at all, is a silent no-op: no store write, no store call, no
\* broadcast, no error leaving the handler (no rejected handler promise, the
\* process keeps running), and the session stays connected.
C11_BadLocationIgnored ==
    [][\A s \in Sessions :
        (Handled("update-location", s) /\ BadPayload(inbound'[1].data)) =>
            /\ store' = store
            /\ handlers' = handlers
            /\ emitted' = <<>>
            /\ unhandled' = unhandled
            /\ process' = process
            /\ sockets' = sockets
      ]_vars

\* ---------------------------------------------------------------- C12
\* The disconnect handler of session s is suspended on its store call.
Disconnecting(s) ==
    \E i \in InFlight : handlers[i].event = "disconnect" /\ handlers[i].socket = s

\* C12: when the store call of a disconnect handler returns, with a result
\* or with an error, the handler runs to its end (line 94) in that step, its
\* session is closed and no second store call is made for it; an error
\* writes nothing and lets no error leave the handler.  With every store
\* call returning, every disconnect handler of a running process completes:
\* time and again no disconnect handler of the session is left suspended.
C12_CleanupCompletes ==
    /\ [][\A i \in InFlight :
            (handlers[i].event = "disconnect" /\ (Completed(i) \/ Failed(i))) =>
                /\ console' = 94
                /\ sockets'[handlers[i].socket].state = "closed"
                /\ \A s \in Sessions : s = handlers[i].socket => ~Disconnecting(s)'
                /\ Failed(i) =>
                    /\ store' = store
                    /\ emitted' = <<>>
                    /\ unhandled' = unhandled
                    /\ process' = process
         ]_vars
    /\ \A s \in Sessions : []<>(~Disconnecting(s) \/ process = "exited")

\* The store call of a disconnect has just failed: the driver is still
\* online in the store, nothing was sent, and the handler ran to its end.
C12_Witness ==
    /\ console = 94
    /\ inbound = <<>>
    /\ emitted = <<>>
    /\ handlers = <<>>
    /\ unhandled = 0
    /\ \E s \in Sessions :
        /\ sockets[s].state = "closed"
        /\ sockets[s].driverId \in Drivers
        /\ StatusOf(store, sockets[s].driverId) = "online"

\* ---------------------------------------------------------------- C13
\* The disconnect of session s has been processed: the socket is closed and
\* its disconnect handler, if it had one, has run to its end.
Closed(s) == sockets[s].state = "closed" /\ ~Disconnecting(s)

\* C13: Closed is terminal: once the disconnect of a session has been
\* processed, no store write and no broadcast is performed on behalf of the
\* session: no handler of the session has its store call executed and none
\* reaches its emit.
C13_ClosedIsTerminal ==
    [][\A i \in InFlight :
        Closed(handlers[i].socket) => ~Written(i) /\ ~Completed(i)
      ]_vars

\* ---------------------------------------------------------------- C14
\* C14: the process starts listening only from the state it is in after the
\* store URI was found present and while the store connection is awaited,
\* and only as that connection succeeds (line 107 logged); a socket changes
\* only while the process listens; a failure of either startup check (line
\* 110 logged) ends the process, and an ended process never listens.
C14_StartupOrder ==
    [][ /\ (process' = "listening" /\ process # "listening") =>
            (process = "connecting" /\ console' = 107)
        /\ process = "starting" =>
            /\ process' \in {"starting", "connecting", "exited"}
            /\ process' = "exited" => console' = 110
        /\ process = "connecting" =>
            /\ process' \in {"connecting", "listening", "exited"}
            /\ process' = "exited" => console' = 110
        /\ console' = 110 => process' = "exited"
        /\ process = "exited" => process' = "exited"
        /\ sockets' # sockets => (process = "listening" /\ process' = "listening")
      ]_vars

\* Startup failed: the process has ended and no connection was ever accepted.
C14_Witness ==
    /\ process = "exited"
    /\ console = 110
    /\ clock = 0
    /\ \A s \in Sessions : sockets[s].state = "idle"

\* ---------------------------------------------------------------- C15
\* C15: an update-location message is accepted from a bound and from an
\* unbound session alike; its store write puts the coordinates under the
\* driverId of the message and leaves the record of every other driver, the
\* session's bound one included, as it was; its broadcast carries the
\* message's driverId; and no step of its handling changes any socket's
\* bound driver identity.
C15_RelayUnderMessageId ==
    [][ /\ \A s \in Sessions :
            Handled("update-location", s) =>
                /\ sockets' = sockets
                /\ Truthy(inbound'[1].data.driverId) =>
                    handlers' = Append(handlers, Handler("update-location", s, inbound'[1].data))
        /\ \A i \in InFlight :
            handlers[i].event = "update-location" =>
                LET D == handlers[i].data.driverId IN
                /\ Written(i) =>
                    /\ CoordsOf(store', D) = handlers[i].data.coordinates
                    /\ \A d \in Drivers \ {D} :
                        /\ CoordsOf(store', d) = CoordsOf(store, d)
                        /\ StatusOf(store', d) = StatusOf(store, d)
                        /\ RecordsOf(store', d) = RecordsOf(store, d)
                    /\ sockets' = sockets
                /\ Completed(i) =>
                    /\ emitted' # <<>>
                    /\ emitted'[1].driverId = D
                    /\ emitted'[1].coordinates = handlers[i].data.coordinates
                    /\ sockets' = sockets
                /\ Failed(i) => sockets' = sockets
      ]_vars

\* A session bound to one driver has relayed a position under another
\* driver's id: saved and announced under that id, the session bound as before.
C15_Witness ==
    /\ emitted # <<>>
    /\ emitted[1].event = "location-received"
    /\ sockets[emitted[1].by].state = "connected"
    /\ sockets[emitted[1].by].driverId \in Drivers \ {emitted[1].driverId}
    /\ CoordsOf(store, emitted[1].driverId) = emitted[1].coordinates
    /\ CoordsOf(store, sockets[emitted[1].by].driverId) = NoCoords

\* ---------------------------------------------------------------- C16
\* C16: the store write of a disconnect creates no record when the store has
\* none for the session's driver D, and the disconnect emits
\* status-update{D, offline} only if its store call updated a record of D.
C16_OfflineOnlyIfSaved ==
    [][\A i \in InFlight :
        handlers[i].event = "disconnect" =>
            LET D == sockets[handlers[i].socket].driverId IN
            /\ (Written(i) /\ RecordsOf(store, D) = {}) => store' = store
            /\ (Completed(i) /\ emitted' # <<>>) => handlers[i].result = "doc"
      ]_vars

\* ---------------------------------------------------------------- C17
\* C17: the disconnect handler of a bound session completes even when its
\* store call is never answered: in a running process no disconnect handler
\* stays suspended for ever.
C17_CleanupDespiteHang ==
    \A s \in Sessions : Disconnecting(s) ~> (~Disconnecting(s) \/ process = "exited")

\* ---------------------------------------------------------------- C18
\* No handler is suspended on a store call.
Quiescent == handlers = <<>>

\* The connected sessions whose socket is bound to driver d.
BoundTo(d) == {s \in Connected : sockets[s].driverId = d}

\* C18 (no false offline): in every quiescent state reached with all store
\* writes succeeding, a driver that some connected session is bound to is
\* online in the store.
C18_NoFalseOffline ==
    Quiescent => \A d \in Drivers : BoundTo(d) # {} => StatusOf(store, d) = "online"

\* ---------------------------------------------------------------- C19
\* C19 (no ghost online): in every quiescent state reached with all store
\* writes succeeding, a driver that no connected session is bound to is not
\* online in the store.
C19_NoGhostOnline ==
    Quiescent => \A d \in Drivers : BoundTo(d) = {} => StatusOf(store, d) # "online"

\* ---------------------------------------------------------------- C20
\* C20 (announced state matches saved state): in every quiescent state the
\* status of the most recently emitted status-update of a driver D equals
\* the persisted status of D; in particular in the quiescent state that the
\* emitting step itself leads to, the announced status is the persisted one.
C20_AnnouncedIsSaved ==
    (Quiescent /\ emitted # <<>> /\ emitted[1].event = "status-update") =>
        StatusOf(store, emitted[1].driverId) = emitted[1].status

====
